---- MODULE Spec2Model ----
(***************************************************************************)
(* The internal VMM API of vmm/src/api/mod.rs: a synchronous command /     *)
(* response IPC.  Caller threads run the client wrappers (vm_create,       *)
(* vm_boot, ..., vm_add_vsock); each wrapper creates a private mpsc reply  *)
(* channel, sends an ApiRequest carrying the reply Sender on the shared    *)
(* API channel, writes 1 to the API EventFd and blocks in recv() on the    *)
(* reply Receiver.  The VMM API server (the dispatcher) is the single      *)
(* consumer of the API channel; it is not part of mod.rs and is modelled   *)
(* from the specification (wake on the EventFd, clear it, drain the queue  *)
(* in arrival order, send one ApiResponse per request).                    *)
(***************************************************************************)
EXTENDS Naturals, Sequences, FiniteSets, TLC

\* Bounds of the model: the number of caller threads, and the number of
\* wrapper calls they issue between them in one run.
NumCallers == 2
MaxCalls == 2

Callers == 1..NumCallers
CallIds == Callers \X (1..MaxCalls)
NoId == <<0, 0>>

(***************************************************************************)
(* Data types of mod.rs                                                    *)
(***************************************************************************)

\* The client wrappers, one per command.
Wrappers ==
    {"vm_create", "vm_boot", "vm_delete", "vm_shutdown", "vm_reboot",
     "vm_info", "vmm_ping", "vmm_shutdown", "vm_add_device",
     "vm_remove_device", "vm_add_disk", "vm_add_fs", "vm_add_pmem",
     "vm_add_net", "vm_add_vsock"}

\* enum ApiRequest: the variants of the command envelope.
ApiRequest ==
    {"VmCreate", "VmBoot", "VmDelete", "VmInfo", "VmmPing", "VmShutdown",
     "VmReboot", "VmmShutdown", "VmAddDevice", "VmRemoveDevice", "VmAddDisk",
     "VmAddFs", "VmAddPmem", "VmAddNet", "VmAddVsock"}

\* enum VmAction.
VmAction == {"Boot", "Delete", "Shutdown", "Reboot"}

\* enum ApiResponsePayload.
ApiResponsePayload == {"Empty", "VmInfo", "VmmPing"}

\* enum ApiError: the four transport kinds ...
TransportErrors ==
    {"EventFdWrite", "RequestSend", "ResponsePayloadType", "ResponseRecv"}

\* ... and the domain kinds.
DomainErrors ==
    {"VmBoot", "VmAlreadyCreated", "VmCreate", "VmDelete", "VmInfo",
     "VmMissingConfig", "VmNotBooted", "VmNotCreated", "VmShutdown",
     "VmReboot", "VmmShutdown", "VmAddDevice", "VmRemoveDevice", "VmAddDisk",
     "VmAddFs", "VmAddPmem", "VmAddNet", "VmAddVsock"}

ApiError == TransportErrors \cup DomainErrors

\* The payload values a caller can hand to a wrapper that takes one.
NoData == "none"
Payloads == {"cfgA", "cfgB"}

NoReq == [kind |-> "none", data |-> NoData, sender |-> NoId, call |-> NoId]
NoMsg == [tag |-> "none", body |-> "none", mark |-> NoId]
NoRet == [tag |-> "none", body |-> "none", mark |-> NoId, req |-> NoReq]

\* What recv() yields when the Sender was dropped without a value: RecvError.
RecvError == [tag |-> "RecvError", body |-> "none", mark |-> NoId]

\* A reply channel that does not exist (not created yet).
NoChan == [buf |-> <<>>, tx |-> FALSE, rx |-> FALSE]

VARIABLES
    pc,        \* pc[t]: where caller t is in its wrapper call
    ncalls,    \* ncalls[t]: number of calls caller t has issued
    fn,        \* fn[t]: the wrapper caller t is running
    arg,       \* arg[t]: the payload caller t passed to the wrapper
    req,       \* req[t]: the ApiRequest built and still owned by caller t
    rcv,       \* rcv[t]: the reply channel whose Receiver caller t holds
    got,       \* got[t]: what recv() returned to caller t
    ret,       \* ret[t]: the ApiResult the wrapper returned
    outcomes,  \* outcomes[c]: how many results call c returned to its caller
    steps,     \* steps[c]: the statements call c has executed so far, in order
    queue,     \* the API mpsc channel: requests sent and not yet received
    evt,       \* the counter of the API EventFd
    disp,      \* the dispatcher: "asleep", "draining" or "dead"
    held,      \* the request the dispatcher has dequeued and not answered
    chan,      \* chan[c]: the reply channel created by call c
    execLog,   \* the calls whose request the dispatcher executed, in order
    menu,      \* the wrappers the callers use in this run
    args,      \* the payloads the callers pass in this run
    shapes,    \* the payload shapes the server answers with in this run
    errs,      \* the errors the server answers with in this run
    left       \* the number of calls the callers may still issue

vars == <<pc, ncalls, fn, arg, req, rcv, got, ret, outcomes, steps, queue, evt,
          disp, held, chan, execLog, menu, args, shapes, errs, left>>

runVars == <<menu, args, shapes, errs>>

callerVars == <<pc, ncalls, fn, arg, req, rcv, got, ret, outcomes, steps>>

(***************************************************************************)
(* Building the request                                                    *)
(***************************************************************************)

\* The wrappers that take a payload (config or device data).
WithPayload ==
    {"vm_create", "vm_add_device", "vm_remove_device", "vm_add_disk",
     "vm_add_fs", "vm_add_pmem", "vm_add_net", "vm_add_vsock"}

DataOf(w) == IF w \in WithPayload THEN Payloads ELSE {NoData}

\* vm_boot, vm_delete, vm_shutdown, vm_reboot call vm_action with an action.
VmActionOf(w) ==
    CASE w = "vm_boot" -> "Boot"
      [] w = "vm_delete" -> "Delete"
      [] w = "vm_shutdown" -> "Shutdown"
      [] w = "vm_reboot" -> "Reboot"

\* Mutant: two arms of the match build each other's variant.
vm_action_request_swapped(action) ==
    CASE action = "Boot" -> "VmBoot"
      [] action = "Delete" -> "VmDelete"
      [] action = "Shutdown" -> "VmReboot"
      [] action = "Reboot" -> "VmShutdown"

\* The match of vm_action: the request variant of an action.
vm_action_request(action) ==
    CASE action = "Boot" -> "VmBoot"
      [] action = "Delete" -> "VmDelete"
      [] action = "Shutdown" -> "VmShutdown"
      [] action = "Reboot" -> "VmReboot"

\* The ApiRequest variant each wrapper constructs.
RequestKind(w) ==
    CASE w = "vm_create" -> "VmCreate"
      [] w \in {"vm_boot", "vm_delete", "vm_shutdown", "vm_reboot"} ->
            vm_action_request(VmActionOf(w))
      [] w = "vm_info" -> "VmInfo"
      [] w = "vmm_ping" -> "VmmPing"
      [] w = "vmm_shutdown" -> "VmmShutdown"
      [] w = "vm_add_device" -> "VmAddDevice"
      [] w = "vm_remove_device" -> "VmRemoveDevice"
      [] w = "vm_add_disk" -> "VmAddDisk"
      [] w = "vm_add_fs" -> "VmAddFs"
      [] w = "vm_add_pmem" -> "VmAddPmem"
      [] w = "vm_add_net" -> "VmAddNet"
      [] w = "vm_add_vsock" -> "VmAddVsock"

\* Mutant: a thread creates its reply channel once and reuses it in its
\* later calls.
NewChannelPerThread(t, n) == <<t, 1>>

\* Mutant: one reply channel shared by all calls instead of a fresh one.
NewChannelShared(t, n) == <<1, 1>>

\* let (response_sender, response_receiver) = channel(): a fresh channel per
\* call, named by the call that creates it.
NewChannel(t, n) == <<t, n>>

\* ApiRequest::Variant(data, response_sender).
BuildRequest(w, d, s, c) ==
    [kind |-> RequestKind(w), data |-> d, sender |-> s, call |-> c]

(***************************************************************************)
(* Handling the response                                                   *)
(***************************************************************************)

Err(e, m) == [tag |-> "Err", body |-> e, mark |-> m, req |-> NoReq]
OkUnit == [tag |-> "Ok", body |-> "Unit", mark |-> NoId, req |-> NoReq]
OkValue(shape, m) == [tag |-> "Ok", body |-> shape, mark |-> m, req |-> NoReq]

\* Err(ApiError::RequestSend(SendError(request))): the error owns the request
\* that could not be sent.
RequestSendError(r) ==
    [tag |-> "Err", body |-> "RequestSend", mark |-> NoId, req |-> r]

\* Mutant: a failed recv() is reported as a payload error.
QuestionMarksWrongRecv(r) ==
    IF r.tag = "RecvError" THEN Err("ResponsePayloadType", NoId)
    ELSE IF r.tag = "Err" THEN Err(r.body, r.mark)
    ELSE NoRet

\* Mutant: the server's error is replaced by the wrapper's own.
QuestionMarksRewrap(r) ==
    IF r.tag = "RecvError" THEN Err("ResponseRecv", NoId)
    ELSE IF r.tag = "Err" THEN Err("ResponseRecv", NoId)
    ELSE NoRet

\* response_receiver.recv().map_err(ApiError::ResponseRecv)??
\* The first ? returns ResponseRecv when recv() failed, the second ? returns
\* the ApiError the server sent; otherwise the value is the payload.
QuestionMarks(r) ==
    IF r.tag = "RecvError" THEN Err("ResponseRecv", NoId)
    ELSE IF r.tag = "Err" THEN Err(r.body, r.mark)
    ELSE NoRet

\* The wrappers that end with `recv()??; Ok(())`: the payload is not looked at.
AckResult(r) ==
    IF QuestionMarks(r) # NoRet THEN QuestionMarks(r) ELSE OkUnit

\* Mutant: vm_info hands back whatever payload arrived.
vm_info_unchecked(r) ==
    IF r.tag = "RecvError" THEN Err("ResponseRecv", NoId)
    ELSE IF r.tag = "Err" THEN Err(r.body, r.mark)
    ELSE OkValue("VmInfo", r.mark)

\* match vm_info { ApiResponsePayload::VmInfo(info) => Ok(info), _ => Err(..) }
vm_info(r) ==
    IF QuestionMarks(r) # NoRet THEN QuestionMarks(r)
    ELSE IF r.body = "VmInfo" THEN OkValue("VmInfo", r.mark)
    ELSE Err("ResponsePayloadType", NoId)

\* Mutant: vmm_ping answers with a pong of its own making.
vmm_ping_default(r) ==
    IF r.tag = "RecvError" THEN Err("ResponseRecv", NoId)
    ELSE IF r.tag = "Err" THEN Err(r.body, r.mark)
    ELSE OkValue("VmmPing", NoId)

\* match vmm_pong { ApiResponsePayload::VmmPing(pong) => Ok(pong), _ => Err(..) }
vmm_ping(r) ==
    IF QuestionMarks(r) # NoRet THEN QuestionMarks(r)
    ELSE IF r.body = "VmmPing" THEN OkValue("VmmPing", r.mark)
    ELSE Err("ResponsePayloadType", NoId)

\* What wrapper w returns once recv() has returned r.
HandleResponse(w, r) ==
    CASE w = "vm_info" -> vm_info(r)
      [] w = "vmm_ping" -> vmm_ping(r)
      [] OTHER -> AckResult(r)

(***************************************************************************)
(* The channels and the EventFd                                            *)
(***************************************************************************)

\* Sender::send on the API channel succeeds while its Receiver exists.
ApiSendOk == disp # "dead"

\* Mutant: the request is sent twice.
EnqueueTwice(q, r) == Append(Append(q, r), r)

\* Mutant: the request is put at the head of the queue.
EnqueueFront(q, r) == <<r>> \o q

\* Sender::send appends to the tail of the channel.
Enqueue(q, r) == Append(q, r)

\* Mutant: the write adds nothing to the counter.
EventFdAddZero(n) == n

\* EventFd::write(1) adds 1 to the counter.
EventFdAdd(n) == n + 1

\* Mutant: the caller keeps a clone of the reply Sender alive, so recv() never
\* finds the channel disconnected.
RecvReadyKeptSender(c) == c.buf # <<>>

\* Receiver::recv returns once a value is buffered or the Sender is gone.
RecvReady(c) == c.buf # <<>> \/ ~c.tx

\* A buffered value is returned even if the Sender is gone.
RecvValue(c) == IF c.buf # <<>> THEN Head(c.buf) ELSE RecvError

\* Dropping the Senders named in S.
DropSenders(ch, S) ==
    [c \in CallIds |-> IF c \in S THEN [ch[c] EXCEPT !.tx = FALSE] ELSE ch[c]]

\* Mutant: the Receiver is leaked instead of dropped when the wrapper returns.
DropReceiverLeak(ch, c) == ch

\* Dropping the Receiver of channel c discards what is buffered.
DropReceiver(ch, c) == [ch EXCEPT ![c] = [@ EXCEPT !.rx = FALSE, !.buf = <<>>]]

\* Sender::send(r) on a reply channel, after which the Sender is dropped: the
\* value is buffered if the Receiver exists, and lost otherwise.
ReplySend(c, r) ==
    [buf |-> IF c.rx THEN Append(c.buf, r) ELSE c.buf, tx |-> FALSE, rx |-> c.rx]

\* The current call of caller t.
Cur(t) == <<t, ncalls[t]>>

(***************************************************************************)
(* The callers                                                             *)
(***************************************************************************)

InitState ==
    /\ pc = [t \in Callers |-> "idle"]
    /\ ncalls = [t \in Callers |-> 0]
    /\ fn = [t \in Callers |-> "none"]
    /\ arg = [t \in Callers |-> NoData]
    /\ req = [t \in Callers |-> NoReq]
    /\ rcv = [t \in Callers |-> NoId]
    /\ got = [t \in Callers |-> NoMsg]
    /\ ret = [t \in Callers |-> NoRet]
    /\ outcomes = [c \in CallIds |-> 0]
    /\ steps = [c \in CallIds |-> <<>>]
    /\ queue = <<>>
    /\ evt = 0
    /\ disp = "asleep"
    /\ held = NoReq
    /\ chan = [c \in CallIds |-> NoChan]
    /\ execLog = <<>>

\* The error the server is documented to send back for each request.
ErrorsOf(k) ==
    CASE k = "VmCreate" -> {"VmCreate"}
      [] k = "VmBoot" -> {"VmBoot"}
      [] k = "VmDelete" -> {"VmDelete"}
      [] k = "VmInfo" -> {"VmInfo"}
      [] k = "VmmPing" -> {"VmNotCreated"}
      [] k = "VmShutdown" -> {"VmShutdown"}
      [] k = "VmReboot" -> {"VmReboot"}
      [] k = "VmmShutdown" -> {"VmmShutdown"}
      [] k = "VmAddDevice" -> {"VmAddDevice"}
      [] k = "VmRemoveDevice" -> {"VmRemoveDevice"}
      [] k = "VmAddDisk" -> {"VmAddDisk"}
      [] k = "VmAddFs" -> {"VmAddFs"}
      [] k = "VmAddPmem" -> {"VmAddPmem"}
      [] k = "VmAddNet" -> {"VmAddNet"}
      [] k = "VmAddVsock" -> {"VmAddVsock"}

\* The payload shape the server sends back for each request when it succeeds.
ShapeOf(k) ==
    CASE k = "VmInfo" -> "VmInfo"
      [] k = "VmmPing" -> "VmmPing"
      [] OTHER -> "Empty"

\* A run of concurrent callers: MaxCalls + 1 calls in all, at most MaxCalls
\* by one caller, so that a caller can issue its calls one after the other
\* while another caller issues one in between.  The calls are of one command
\* (any of them) with one payload (any of them), against a server that
\* answers with that command's payload shape or fails with that command's
\* error.
Init ==
    /\ InitState
    /\ left = MaxCalls + 1
    /\ \E w \in Wrappers : \E d \in DataOf(w) :
         /\ menu = {w}
         /\ args = {d}
         /\ shapes = {ShapeOf(RequestKind(w))}
         /\ errs = ErrorsOf(RequestKind(w))

\* A run of one call: any wrapper, any payload, against a server that may
\* answer with any payload shape and any ApiError.
InitAny ==
    /\ InitState
    /\ left = 1
    /\ menu = Wrappers
    /\ args = Payloads \cup {NoData}
    /\ shapes = ApiResponsePayload
    /\ errs = ApiError

\* A caller enters wrapper w with payload d: it creates the reply channel and
\* builds the request.  The result of its previous call is dropped.
Start(t) ==
    /\ pc[t] \in {"idle", "returned"}
    /\ left > 0
    /\ ncalls[t] < MaxCalls
    /\ left' = left - 1
    /\ \E w \in menu : \E d \in DataOf(w) \cap args :
         LET n == ncalls[t] + 1
             s == NewChannel(t, n)
         IN  /\ ncalls' = [ncalls EXCEPT ![t] = n]
             /\ fn' = [fn EXCEPT ![t] = w]
             /\ arg' = [arg EXCEPT ![t] = d]
             /\ req' = [req EXCEPT ![t] = BuildRequest(w, d, s, <<t, n>>)]
             /\ rcv' = [rcv EXCEPT ![t] = s]
             /\ steps' = [steps EXCEPT ![<<t, n>>] = <<"channel">>]
             /\ chan' = [DropSenders(chan, {ret[t].req.sender} \ {NoId})
                            EXCEPT ![s] = [buf |-> <<>>, tx |-> TRUE, rx |-> TRUE]]
    /\ got' = [got EXCEPT ![t] = NoMsg]
    /\ ret' = [ret EXCEPT ![t] = NoRet]
    /\ pc' = [pc EXCEPT ![t] = "send"]
    /\ UNCHANGED <<outcomes, queue, evt, disp, held, execLog, runVars>>

\* Call Cur(t) executes statement s.
Step(t, s) == steps' = [steps EXCEPT ![Cur(t)] = Append(@, s)]

\* The wrapper returns r: its reply Receiver goes out of scope.
Return(t, r) ==
    /\ pc' = [pc EXCEPT ![t] = "returned"]
    /\ ret' = [ret EXCEPT ![t] = r]
    /\ outcomes' = [outcomes EXCEPT ![Cur(t)] = @ + 1]

\* Mutant: the EventFd is written although the send failed.
SendThenSignal(t) ==
    /\ pc[t] = "send"
    /\ IF ApiSendOk
       THEN /\ queue' = Enqueue(queue, req[t])
            /\ Step(t, "send_ok")
            /\ pc' = [pc EXCEPT ![t] = "signal"]
            /\ UNCHANGED <<ret, outcomes, chan, evt>>
       ELSE /\ Return(t, RequestSendError(req[t]))
            /\ Step(t, "send_err")
            /\ chan' = DropReceiver(chan, rcv[t])
            /\ evt' = EventFdAdd(evt)
            /\ UNCHANGED queue
    /\ req' = [req EXCEPT ![t] = NoReq]
    /\ UNCHANGED <<ncalls, fn, arg, rcv, got, disp, held, execLog,
                   runVars, left>>

\* Mutant: the command queue is a bounded sync_channel: send() waits while
\* a request is queued.
SendBounded(t) ==
    /\ pc[t] = "send"
    /\ ApiSendOk => queue = <<>>
    /\ IF ApiSendOk
       THEN /\ queue' = Enqueue(queue, req[t])
            /\ Step(t, "send_ok")
            /\ pc' = [pc EXCEPT ![t] = "signal"]
            /\ UNCHANGED <<ret, outcomes, chan>>
       ELSE /\ Return(t, RequestSendError(req[t]))
            /\ Step(t, "send_err")
            /\ chan' = DropReceiver(chan, rcv[t])
            /\ UNCHANGED queue
    /\ req' = [req EXCEPT ![t] = NoReq]
    /\ UNCHANGED <<ncalls, fn, arg, rcv, got, evt, disp, held, execLog,
                   runVars, left>>

\* Mutant: the EventFd is written before the request is sent.
SignalBeforeSend(t) ==
    /\ pc[t] = "send"
    /\ evt' = EventFdAdd(evt)
    /\ IF ApiSendOk
       THEN /\ queue' = Enqueue(queue, req[t])
            /\ steps' = [steps EXCEPT ![Cur(t)] = @ \o <<"write_ok", "send_ok">>]
            /\ pc' = [pc EXCEPT ![t] = "recv"]
            /\ UNCHANGED <<ret, outcomes, chan>>
       ELSE /\ Return(t, RequestSendError(req[t]))
            /\ steps' = [steps EXCEPT ![Cur(t)] = @ \o <<"write_ok", "send_err">>]
            /\ chan' = DropReceiver(chan, rcv[t])
            /\ UNCHANGED queue
    /\ req' = [req EXCEPT ![t] = NoReq]
    /\ UNCHANGED <<ncalls, fn, arg, rcv, got, disp, held, execLog,
                   runVars, left>>

\* Mutant: the request carries a clone of the reply Sender and the caller
\* keeps the original.
SendKeepsSender(t) ==
    /\ pc[t] = "send"
    /\ IF ApiSendOk
       THEN /\ queue' = Enqueue(queue, req[t])
            /\ Step(t, "send_ok")
            /\ pc' = [pc EXCEPT ![t] = "signal"]
            /\ UNCHANGED <<ret, outcomes, chan>>
       ELSE /\ Return(t, RequestSendError(req[t]))
            /\ Step(t, "send_err")
            /\ chan' = DropReceiver(chan, rcv[t])
            /\ UNCHANGED queue
    /\ UNCHANGED <<ncalls, fn, arg, req, rcv, got, evt, disp, held, execLog,
                   runVars, left>>

\* api_sender.send(request).map_err(ApiError::RequestSend)?
Send(t) ==
    /\ pc[t] = "send"
    /\ IF ApiSendOk
       THEN /\ queue' = Enqueue(queue, req[t])
            /\ Step(t, "send_ok")
            /\ pc' = [pc EXCEPT ![t] = "signal"]
            /\ UNCHANGED <<ret, outcomes, chan>>
       ELSE /\ Return(t, RequestSendError(req[t]))
            /\ Step(t, "send_err")
            /\ chan' = DropReceiver(chan, rcv[t])
            /\ UNCHANGED queue
    /\ req' = [req EXCEPT ![t] = NoReq]
    /\ UNCHANGED <<ncalls, fn, arg, rcv, got, evt, disp, held, execLog,
                   runVars, left>>

\* Mutant: a failed write is retried once before the error is returned.
EventFdWriteRetry(t) ==
    /\ pc[t] = "signal"
    /\ \E ok, again \in BOOLEAN :
         IF ok \/ again
         THEN /\ evt' = EventFdAdd(evt)
              /\ steps' = [steps EXCEPT ![Cur(t)] =
                             IF ok THEN Append(@, "write_ok")
                             ELSE @ \o <<"write_err", "write_ok">>]
              /\ pc' = [pc EXCEPT ![t] = "recv"]
              /\ UNCHANGED <<ret, outcomes, chan>>
         ELSE /\ Return(t, Err("EventFdWrite", NoId))
              /\ steps' = [steps EXCEPT ![Cur(t)] =
                             @ \o <<"write_err", "write_err">>]
              /\ chan' = DropReceiver(chan, rcv[t])
              /\ UNCHANGED evt
    /\ UNCHANGED <<ncalls, fn, arg, req, rcv, got, queue, disp, held,
                   execLog, runVars, left>>

\* Mutant: the result of the write is ignored and the caller goes on to recv().
EventFdWriteIgnored(t) ==
    /\ pc[t] = "signal"
    /\ \E ok \in BOOLEAN :
         /\ evt' = IF ok THEN EventFdAdd(evt) ELSE evt
         /\ Step(t, IF ok THEN "write_ok" ELSE "write_err")
    /\ pc' = [pc EXCEPT ![t] = "recv"]
    /\ UNCHANGED <<ncalls, fn, arg, req, rcv, got, ret, outcomes, chan, queue,
                   disp, held, execLog, runVars, left>>

\* Mutant: a failed write takes the caller's request back out of the queue.
EventFdWriteRollback(t) ==
    /\ pc[t] = "signal"
    /\ \E ok \in BOOLEAN :
         IF ok
         THEN /\ evt' = EventFdAdd(evt)
              /\ Step(t, "write_ok")
              /\ pc' = [pc EXCEPT ![t] = "recv"]
              /\ UNCHANGED <<ret, outcomes, chan, queue>>
         ELSE /\ Return(t, Err("EventFdWrite", NoId))
              /\ Step(t, "write_err")
              /\ chan' = DropReceiver(chan, rcv[t])
              /\ queue' = SelectSeq(queue, LAMBDA e : e.call # Cur(t))
              /\ UNCHANGED evt
    /\ UNCHANGED <<ncalls, fn, arg, req, rcv, got, disp, held, execLog,
                   runVars, left>>

\* api_evt.write(1).map_err(ApiError::EventFdWrite)?
EventFdWrite(t) ==
    /\ pc[t] = "signal"
    /\ \E ok \in BOOLEAN :
         IF ok
         THEN /\ evt' = EventFdAdd(evt)
              /\ Step(t, "write_ok")
              /\ pc' = [pc EXCEPT ![t] = "recv"]
              /\ UNCHANGED <<ret, outcomes, chan>>
         ELSE /\ Return(t, Err("EventFdWrite", NoId))
              /\ Step(t, "write_err")
              /\ chan' = DropReceiver(chan, rcv[t])
              /\ UNCHANGED evt
    /\ UNCHANGED <<ncalls, fn, arg, req, rcv, got, queue, disp, held,
                   execLog, runVars, left>>

\* response_receiver.recv() and what follows it.
Recv(t) ==
    /\ pc[t] = "recv"
    /\ RecvReady(chan[rcv[t]])
    /\ got' = [got EXCEPT ![t] = RecvValue(chan[rcv[t]])]
    /\ Return(t, HandleResponse(fn[t], RecvValue(chan[rcv[t]])))
    /\ Step(t, "recv")
    /\ chan' = DropReceiver(chan, rcv[t])
    /\ UNCHANGED <<ncalls, fn, arg, req, rcv, queue, evt, disp, held,
                   execLog, runVars, left>>

(***************************************************************************)
(* The dispatcher (the VMM API server)                                     *)
(***************************************************************************)

\* The responses the server can send for request e, each marked with the
\* call it answers.
Responses(e) ==
    {[tag |-> "Ok", body |-> p, mark |-> e.call] : p \in shapes}
    \cup {[tag |-> "Err", body |-> x, mark |-> e.call] : x \in errs}

\* The server wakes on the EventFd and reads it, which clears the counter.
Wake ==
    /\ disp = "asleep"
    /\ evt > 0
    /\ evt' = 0
    /\ disp' = "draining"
    /\ UNCHANGED <<callerVars, queue, held, chan, execLog, runVars, left>>

\* The drain policy is left to the server's dispatch loop, which is promised
\* to execute every queued request eventually: it may also start a drain on
\* its own when a request is queued and no signal is pending.
Poll ==
    /\ disp = "asleep"
    /\ evt = 0
    /\ queue # <<>>
    /\ disp' = "draining"
    /\ UNCHANGED <<callerVars, queue, evt, held, chan, execLog, runVars, left>>

\* It takes the request at the head of the queue.
Dequeue ==
    /\ disp = "draining"
    /\ held = NoReq
    /\ queue # <<>>
    /\ held' = Head(queue)
    /\ queue' = Tail(queue)
    /\ UNCHANGED <<callerVars, evt, disp, chan, execLog, runVars, left>>

\* It executes the request and sends one response on the request's Sender,
\* which it then drops.  A send to a dropped Receiver fails and is ignored.
Reply ==
    /\ disp = "draining"
    /\ held # NoReq
    /\ \E r \in Responses(held) :
         chan' = [chan EXCEPT ![held.sender] = ReplySend(@, r)]
    /\ execLog' = Append(execLog, held.call)
    /\ held' = NoReq
    /\ UNCHANGED <<callerVars, queue, evt, disp, runVars, left>>

\* With the queue drained it goes back to waiting on the EventFd.
Sleep ==
    /\ disp = "draining"
    /\ held = NoReq
    /\ queue = <<>>
    /\ disp' = "asleep"
    /\ UNCHANGED <<callerVars, queue, evt, held, chan, execLog, runVars, left>>

\* The server thread terminates: the API Receiver is dropped, and with it
\* every queued request and the request in flight, hence their Senders.
Terminate ==
    /\ disp # "dead"
    /\ disp' = "dead"
    /\ chan' = DropSenders(chan,
                 {queue[i].sender : i \in 1..Len(queue)}
                 \cup ({held.sender} \ {NoId}))
    /\ queue' = <<>>
    /\ held' = NoReq
    /\ UNCHANGED <<callerVars, evt, execLog, runVars, left>>

Next ==
    \/ \E t \in Callers : Start(t)
    \/ \E t \in Callers : Send(t)
    \/ \E t \in Callers : EventFdWrite(t)
    \/ \E t \in Callers : Recv(t)
    \/ Wake
    \/ Poll
    \/ Dequeue
    \/ Reply
    \/ Sleep
    \/ Terminate

Spec == Init /\ [][Next]_vars

\* Threads that can run do run: a caller inside a wrapper takes its next
\* step, a live dispatcher takes its next step.  Nothing forces a caller to
\* start a call, nor the dispatcher to terminate.
Fairness ==
    /\ \A t \in Callers :
         WF_vars(Send(t)) /\ WF_vars(EventFdWrite(t)) /\ WF_vars(Recv(t))
    /\ WF_vars(Wake) /\ WF_vars(Poll) /\ WF_vars(Dequeue) /\ WF_vars(Reply)
    /\ WF_vars(Sleep)

FairSpec == Spec /\ Fairness

SpecAny == InitAny /\ [][Next]_vars

(***************************************************************************)
(* Properties                                                              *)
(***************************************************************************)

Returned(t) == pc[t] = "returned"
InCall(t) == pc[t] \in {"send", "signal", "recv"}
InQueue(c) == \E i \in 1..Len(queue) : queue[i].call = c
Executed(c) == \E i \in 1..Len(execLog) : execLog[i] = c
ExecCount(c) == Cardinality({i \in 1..Len(execLog) : execLog[i] = c})
Answered(m) == m.tag \in {"Ok", "Err"}
Range(q) == {q[i] : i \in 1..Len(q)}

\* C1: one call to a wrapper yields exactly one outcome to its caller, for
\* every command and every interleaving: no call returns more than one result,
\* a call that has returned has returned exactly one, an Ok or an Err, and
\* every call that was started does return.
C1_ExactlyOneOutcome ==
    /\ [](\A c \in CallIds : outcomes[c] <= 1)
    /\ [](\A t \in Callers :
            Returned(t) => outcomes[Cur(t)] = 1 /\ ret[t].tag \in {"Ok", "Err"})
    /\ \A t \in Callers : InCall(t) ~> Returned(t)

\* A run in which one caller's call has returned Ok and the other's an error.
C1_Witness ==
    \E t \in Callers : \E u \in Callers :
        /\ Returned(t) /\ ret[t].tag = "Ok" /\ outcomes[Cur(t)] = 1
        /\ Returned(u) /\ ret[u].tag = "Err" /\ outcomes[Cur(u)] = 1

\* C2: with callers running concurrently, each caller receives only the
\* response the dispatcher produced for its own request: what recv() returned
\* to a caller carries the mark of that caller's current call, every buffered
\* response sits in the channel of the call it answers, and no two callers
\* hold the Receiver of the same channel.
C2_OwnResponseOnly ==
    /\ \A t \in Callers : Answered(got[t]) => got[t].mark = Cur(t)
    /\ \A c \in CallIds : \A i \in 1..Len(chan[c].buf) : chan[c].buf[i].mark = c
    /\ \A t \in Callers : \A u \in Callers :
          (t # u /\ rcv[t] # NoId) => rcv[t] # rcv[u]

\* One caller has received its response while the response for the other,
\* sent concurrently, is still buffered for it.
C2_Witness ==
    \E t \in Callers : \E u \in Callers :
        /\ t # u
        /\ Returned(t) /\ Answered(got[t]) /\ got[t].mark = Cur(t)
        /\ pc[u] = "recv" /\ chan[rcv[u]].buf # <<>>

\* C3: if the dispatcher terminates while requests are queued or in flight,
\* every caller blocked in recv() on a reply that was not sent eventually
\* unblocks and its call returns ApiError::ResponseRecv.
C3_DeadDispatcherUnblocks ==
    \A t \in Callers :
        (disp = "dead" /\ pc[t] = "recv" /\ chan[rcv[t]].buf = <<>>)
            ~> (Returned(t) /\ ret[t] = Err("ResponseRecv", NoId))

\* The dispatcher is dead and every caller's call has returned ResponseRecv.
C3_Witness ==
    /\ disp = "dead"
    /\ \A t \in Callers : Returned(t) /\ ret[t] = Err("ResponseRecv", NoId)

C5_Original ==
    [][\A t \in Callers :
          (pc[t] = "signal" /\ pc'[t] = "returned" /\ disp' # "dead") =>
              /\ ret'[t] = Err("EventFdWrite", NoId)
              /\ \/ \E i \in 1..Len(queue') : queue'[i].call = Cur(t)
                 \/ held'.call = Cur(t)]_vars

\* C5 as amended: when the send succeeds and the EventFd write fails, the
\* call returns EventFdWrite at once, without a recv(), and the failed write
\* undoes nothing: the queue, the request held by the dispatcher and the
\* EventFd counter are as they were.  The request is then in the queue or
\* held by the dispatcher, unless the dispatcher, already draining, has
\* executed it, or has terminated.
C5_FailedWriteUndoesNothing ==
    [][\A t \in Callers :
          (pc[t] = "signal" /\ pc'[t] = "returned") =>
              /\ ret'[t] = Err("EventFdWrite", NoId)
              /\ got'[t] = NoMsg
              /\ queue' = queue /\ held' = held /\ evt' = evt
              /\ \/ \E i \in 1..Len(queue') : queue'[i].call = Cur(t)
                 \/ held'.call = Cur(t)
                 \/ \E i \in 1..Len(execLog') : execLog'[i] = Cur(t)
                 \/ disp' = "dead"]_vars

\* A call has returned EventFdWrite and its request is still in the queue.
C5_Witness ==
    \E t \in Callers :
        /\ Returned(t) /\ ret[t] = Err("EventFdWrite", NoId)
        /\ InQueue(Cur(t))

\* C6: when the send fails, the call returns RequestSend at once with no side
\* effect: the step leaves the queue, the EventFd counter and the dispatcher
\* as they were, the caller has not waited on its reply channel, and the
\* command is never queued, held or executed.
C6_FailedSendNoEffect ==
    /\ [][\A t \in Callers :
            (pc[t] = "send" /\ pc'[t] = "returned") =>
                /\ ret'[t].tag = "Err" /\ ret'[t].body = "RequestSend"
                /\ queue' = queue /\ evt' = evt
                /\ held' = held /\ execLog' = execLog]_vars
    /\ [](\A t \in Callers :
            (Returned(t) /\ ret[t].body = "RequestSend") =>
                /\ got[t] = NoMsg
                /\ ~InQueue(Cur(t)) /\ held.call # Cur(t)
                /\ ~Executed(Cur(t)))

\* A call has returned RequestSend.
C6_Witness ==
    \E t \in Callers :
        /\ Returned(t) /\ ret[t].tag = "Err" /\ ret[t].body = "RequestSend"
        /\ disp = "dead" /\ queue = <<>>

\* C7: for every command, when the dispatcher replies with a domain error e
\* the wrapper returns exactly e: the same error with what it carries, not a
\* transport error, not another error, not a success.
C7_DomainErrorUnchanged ==
    \A t \in Callers :
        (Returned(t) /\ got[t].tag = "Err" /\ got[t].body \in DomainErrors) =>
            ret[t] = Err(got[t].body, got[t].mark)

\* vm_create was answered VmAlreadyCreated and returned it.
C7_Witness ==
    \E t \in Callers :
        /\ Returned(t) /\ fn[t] = "vm_create"
        /\ got[t].tag = "Err" /\ got[t].body = "VmAlreadyCreated"
        /\ ret[t] = Err("VmAlreadyCreated", Cur(t))

\* C8: vm_info returns the VmInfo the dispatcher sent exactly when the success
\* payload is a VmInfo, vmm_ping returns the VmmPingResponse the dispatcher
\* sent exactly when the success payload is a VmmPing, and a success payload
\* of any other shape makes them return ResponsePayloadType.
C8_InfoAndPingPayload ==
    \A t \in Callers :
        (Returned(t) /\ got[t].tag = "Ok") =>
            /\ fn[t] = "vm_info" =>
                  ret[t] = IF got[t].body = "VmInfo"
                           THEN OkValue("VmInfo", got[t].mark)
                           ELSE Err("ResponsePayloadType", NoId)
            /\ fn[t] = "vmm_ping" =>
                  ret[t] = IF got[t].body = "VmmPing"
                           THEN OkValue("VmmPing", got[t].mark)
                           ELSE Err("ResponsePayloadType", NoId)

\* vmm_ping was answered a VmmPing and returned that very pong.
C8_Witness ==
    \E t \in Callers :
        /\ Returned(t) /\ fn[t] = "vmm_ping"
        /\ got[t].tag = "Ok" /\ got[t].body = "VmmPing"
        /\ ret[t] = OkValue("VmmPing", Cur(t))

\* The payload shape each command expects back.
ExpectedShape(w) == ShapeOf(RequestKind(w))

\* C9 as stated: for every command a call returns success only if the success
\* payload has the shape the command expects, and a success payload of any
\* other shape is reported as ResponsePayloadType.
C9_Original ==
    \A t \in Callers :
        (Returned(t) /\ got[t].tag = "Ok") =>
            /\ ret[t].tag = "Ok" => got[t].body = ExpectedShape(fn[t])
            /\ got[t].body # ExpectedShape(fn[t]) =>
                  ret[t] = Err("ResponsePayloadType", NoId)

\* C9 as amended: vm_info and vmm_ping return success only if the success
\* payload has the shape they expect and report any other shape as
\* ResponsePayloadType; every other wrapper returns Ok(()) for a success
\* payload of any shape, which it drops without looking at it.
C9_ShapeCheckedByInfoAndPingOnly ==
    \A t \in Callers :
        (Returned(t) /\ got[t].tag = "Ok") =>
            IF fn[t] \in {"vm_info", "vmm_ping"}
            THEN /\ ret[t].tag = "Ok" => got[t].body = ExpectedShape(fn[t])
                 /\ got[t].body # ExpectedShape(fn[t]) =>
                       ret[t] = Err("ResponsePayloadType", NoId)
            ELSE ret[t] = OkUnit

\* vm_create was answered a VmInfo payload and returned Ok(()).
C9_Witness ==
    \E t \in Callers :
        /\ Returned(t) /\ fn[t] = "vm_create"
        /\ got[t].tag = "Ok" /\ got[t].body = "VmInfo"
        /\ ret[t] = OkUnit

\* C10: the queue is FIFO per producer: the requests of one caller sit in the
\* queue, are dequeued and are executed in the order the caller issued them,
\* in every interleaving with the other callers.
C10_FifoPerProducer ==
    /\ \A i \in 1..Len(queue) : \A j \in 1..Len(queue) :
          (i < j /\ queue[i].call[1] = queue[j].call[1]) =>
              queue[i].call[2] < queue[j].call[2]
    /\ \A i \in 1..Len(queue) :
          held.call[1] = queue[i].call[1] => held.call[2] < queue[i].call[2]
    /\ \A i \in 1..Len(execLog) :
          /\ \A j \in 1..Len(execLog) :
                (i < j /\ execLog[i][1] = execLog[j][1]) =>
                    execLog[i][2] < execLog[j][2]
          /\ held.call[1] = execLog[i][1] => execLog[i][2] < held.call[2]
          /\ \A j \in 1..Len(queue) :
                queue[j].call[1] = execLog[i][1] =>
                    execLog[i][2] < queue[j].call[2]

\* Two requests of one caller are in the queue with another caller's request
\* between them: the first call's EventFd write failed, the other caller sent
\* next, and the first caller has sent again.
C10_Witness ==
    \E t, u \in Callers :
        /\ t # u
        /\ Len(queue) = 3
        /\ queue[1].call = <<t, 1>>
        /\ queue[2].call = <<u, 1>>
        /\ queue[3].call = <<t, 2>>

\* The places that own the Sender of reply channel c: a request still in a
\* caller's hands, a request inside a returned RequestSend error, a queued
\* request, the request the dispatcher holds.
SenderHolders(c) ==
    Cardinality({t \in Callers : req[t].sender = c})
    + Cardinality({t \in Callers : ret[t].req.sender = c})
    + Cardinality({i \in 1..Len(queue) : queue[i].sender = c})
    + (IF held.sender = c THEN 1 ELSE 0)

\* C11: a reply Sender that exists has exactly one owner (the caller, then
\* the queue, then the dispatcher), a dropped one has none; every request
\* carries the Sender of the call that built it; the Sender leaves the
\* caller in the step that pushes the request; at most one value is ever
\* sent on a reply channel.
C11_SingleSenderOwner ==
    /\ \A c \in CallIds :
         /\ SenderHolders(c) = IF chan[c].tx THEN 1 ELSE 0
         /\ ExecCount(c) <= 1
         /\ Len(chan[c].buf) <= 1
         /\ InQueue(c) => \A t \in Callers : req[t].sender # c
    /\ \A t \in Callers : req[t] # NoReq => req[t].sender = Cur(t)
    /\ \A t \in Callers : ret[t].req # NoReq => ret[t].req.sender = Cur(t)
    /\ \A i \in 1..Len(queue) : queue[i].sender = queue[i].call
    /\ held # NoReq => held.sender = held.call

\* One Sender is owned by the dispatcher, one by the queue, and both callers
\* have handed theirs over.
C11_Witness ==
    /\ held # NoReq /\ chan[held.sender].tx
    /\ Len(queue) = 1 /\ chan[queue[1].sender].tx
    /\ queue[1].sender # held.sender
    /\ \A t \in Callers : req[t] = NoReq /\ pc[t] \in {"signal", "recv"}

\* The request of call c is still owned by the dispatcher side.
Pending(c) == InQueue(c) \/ held.call = c

\* C12 as stated: once a call has returned, whatever its result, its request
\* is neither queued nor held by the dispatcher nor inside the returned
\* value, and both halves of its reply channel are gone.
C12_Original ==
    \A t \in Callers :
        Returned(t) =>
            /\ ~Pending(Cur(t))
            /\ ret[t].req = NoReq
            /\ ~chan[rcv[t]].tx
            /\ ~chan[rcv[t]].rx

\* C12 (amended): once a call has returned its reply Receiver is gone.  The
\* request and the reply Sender are gone as well when the call ended in its
\* recv(); after a failed send the returned error owns the request with its
\* live Sender; after a failed write the Sender lives exactly as long as the
\* request stays with the queue or the dispatcher.
C12_ReceiverNeverOutlivesCall ==
    \A t \in Callers :
        Returned(t) =>
            /\ ~chan[rcv[t]].rx
            /\ chan[rcv[t]].buf = <<>>
            /\ got[t] # NoMsg =>
                  /\ ~Pending(Cur(t))
                  /\ ret[t].req = NoReq
                  /\ ~chan[rcv[t]].tx
            /\ "send_err" \in Range(steps[Cur(t)]) =>
                  /\ ~Pending(Cur(t))
                  /\ ret[t].req # NoReq
                  /\ ret[t].req.call = Cur(t)
                  /\ ret[t].req.sender = rcv[t]
                  /\ chan[rcv[t]].tx
            /\ "write_err" \in Range(steps[Cur(t)]) =>
                  /\ ret[t].req = NoReq
                  /\ chan[rcv[t]].tx <=> Pending(Cur(t))

\* A caller has returned from a failed write: its Receiver is gone while its
\* request, with the live Sender, is still queued.
C12_Witness ==
    \E t \in Callers :
        /\ Returned(t) /\ ret[t].body = "EventFdWrite" /\ got[t] = NoMsg
        /\ InQueue(Cur(t))
        /\ chan[rcv[t]].tx /\ ~chan[rcv[t]].rx

\* The calls that have executed statement s.
Did(s) == {c \in CallIds : s \in Range(steps[c])}

\* The orders in which a wrapper body can have executed its statements.
StatementOrders ==
    {<<>>,
     <<"channel">>,
     <<"channel", "send_err">>,
     <<"channel", "send_ok">>,
     <<"channel", "send_ok", "write_err">>,
     <<"channel", "send_ok", "write_ok">>,
     <<"channel", "send_ok", "write_ok", "recv">>}

\* C13: a call creates its channel, enqueues, signals and receives in that
\* order: it signals only after its own enqueue succeeded and waits only
\* after both, so the signals written never outnumber the requests enqueued.
C13_StepsInOrder ==
    /\ \A c \in CallIds : steps[c] \in StatementOrders
    /\ \A t \in Callers :
         /\ pc[t] = "send" => steps[Cur(t)] = <<"channel">>
         /\ pc[t] = "signal" => steps[Cur(t)] = <<"channel", "send_ok">>
         /\ pc[t] = "recv" =>
               steps[Cur(t)] = <<"channel", "send_ok", "write_ok">>
    /\ Did("write_ok") \subseteq Did("send_ok")
    /\ Cardinality(Did("write_ok")) <= Cardinality(Did("send_ok"))
    /\ evt <= Cardinality(Did("write_ok"))
    /\ Len(queue) <= Cardinality(Did("send_ok"))

\* One call has gone through all four statements and another one has
\* enqueued without having signalled yet.
C13_Witness ==
    \E c, d \in CallIds :
        /\ steps[c] = <<"channel", "send_ok", "write_ok", "recv">>
        /\ steps[d] = <<"channel", "send_ok">>
        /\ Cardinality(Did("write_ok")) < Cardinality(Did("send_ok"))

\* C14: no wakeup is lost when signals coalesce: with a dispatcher that
\* clears the counter and then drains the whole queue, whenever the queue is
\* non-empty, no write has failed and no caller is between its send and its
\* write, the counter is non-zero or the dispatcher is awake and draining.
C14_NoLostWakeup ==
    (/\ queue # <<>>
     /\ Did("write_err") = {}
     /\ \A t \in Callers : pc[t] # "signal")
    => (evt > 0 \/ disp = "draining")

\* Two signals have coalesced into one wakeup: the dispatcher has cleared the
\* counter once and both requests are still queued.
C14_Witness ==
    /\ Len(queue) = 2
    /\ Cardinality(Did("write_ok")) = 2
    /\ Did("write_err") = {}
    /\ evt = 0
    /\ disp = "draining"
    /\ \A t \in Callers : pc[t] = "recv"

\* C15: after a call has returned from a failed write its reply Receiver is
\* gone: the result the dispatcher later sends for its request is buffered
\* for no one, is observed by no later call of the same thread nor by any
\* other caller, and sending it does not block the dispatcher.
C15_LateResultDiscarded ==
    \A c \in CallIds :
        "write_err" \in Range(steps[c]) =>
            /\ ~chan[c].rx
            /\ chan[c].buf = <<>>
            /\ \A t \in Callers : got[t].mark # c
            /\ held.call = c => ENABLED Reply

\* The first call of a thread failed its write; the dispatcher, woken by the
\* thread's second call, has executed both requests, and the second call has
\* returned with its own response.
C15_Witness ==
    \E t \in Callers :
        /\ ncalls[t] = 2
        /\ "write_err" \in Range(steps[<<t, 1>>])
        /\ Executed(<<t, 1>>)
        /\ chan[<<t, 1>>].buf = <<>>
        /\ Returned(t) /\ Answered(got[t]) /\ got[t].mark = <<t, 2>>

\* How many times call c has executed one of the statements in S.
Times(c, S) == Cardinality({i \in 1..Len(steps[c]) : steps[c][i] \in S})

\* The last statement call c has executed.
LastStep(c) == IF steps[c] = <<>> THEN "none" ELSE steps[c][Len(steps[c])]

\* How many copies of the request of call c exist or have been executed.
Copies(c) ==
    Cardinality({i \in 1..Len(queue) : queue[i].call = c})
    + (IF held.call = c THEN 1 ELSE 0)
    + ExecCount(c)

\* The statement at which a call ended with a transport error.
FailedAt(t) ==
    CASE ret[t].tag = "Err" /\ ret[t].body = "RequestSend" /\ got[t] = NoMsg
            -> "send_err"
      [] ret[t].tag = "Err" /\ ret[t].body = "EventFdWrite" /\ got[t] = NoMsg
            -> "write_err"
      [] ret[t].tag = "Err" /\ ret[t].body = "ResponseRecv" /\ got[t] = RecvError
            -> "recv"
      [] OTHER -> "none"

\* C16: no wrapper retries: one call enqueues at most once, writes the value
\* 1 to the EventFd at most once and receives at most once, and a transport
\* error ends the call at the statement where it occurred.
C16_NoRetry ==
    /\ \A c \in CallIds :
         /\ Times(c, {"send_ok", "send_err"}) <= 1
         /\ Times(c, {"write_ok", "write_err"}) <= 1
         /\ Times(c, {"recv"}) <= 1
         /\ Copies(c) <= 1
    /\ evt <= Cardinality(Did("write_ok"))
    /\ \A t \in Callers :
         /\ InCall(t) =>
               LastStep(Cur(t)) \notin {"send_err", "write_err", "recv"}
         /\ Returned(t) /\ FailedAt(t) # "none" =>
               LastStep(Cur(t)) = FailedAt(t)

\* Two transport errors have each ended a call at its own statement: one call
\* has returned from a failed recv() and another from a failed send.
C16_Witness ==
    \E t, u \in Callers :
        /\ t # u
        /\ ncalls[t] = 1 /\ Returned(t) /\ FailedAt(t) = "recv"
        /\ steps[Cur(t)] = <<"channel", "send_ok", "write_ok", "recv">>
        /\ Returned(u) /\ FailedAt(u) = "send_err"
        /\ steps[Cur(u)] = <<"channel", "send_err">>

\* C17: recv() is the only statement at which a caller can wait: in every
\* reachable state a caller at its send and a caller at its write can take
\* that step at once, whatever the queue, the counter and the dispatcher are.
C17_OnlyRecvBlocks ==
    \A t \in Callers :
        /\ pc[t] = "send" => ENABLED Send(t)
        /\ pc[t] = "signal" => ENABLED EventFdWrite(t)
        /\ pc[t] = "recv" /\ ~ENABLED Recv(t) =>
              /\ chan[rcv[t]].buf = <<>>
              /\ chan[rcv[t]].tx

\* One caller waits in recv() for a response not yet sent while the other is
\* at its send with a request already queued and the counter non-zero.
C17_Witness ==
    \E t, u \in Callers :
        /\ pc[t] = "recv" /\ ~ENABLED Recv(t)
        /\ pc[u] = "send" /\ ENABLED Send(u)
        /\ queue # <<>>
        /\ evt > 0

\* The command kind each wrapper stands for.
CommandOf ==
    [w \in Wrappers |->
        CASE w = "vm_create" -> "VmCreate"
          [] w = "vm_boot" -> "VmBoot"
          [] w = "vm_delete" -> "VmDelete"
          [] w = "vm_shutdown" -> "VmShutdown"
          [] w = "vm_reboot" -> "VmReboot"
          [] w = "vm_info" -> "VmInfo"
          [] w = "vmm_ping" -> "VmmPing"
          [] w = "vmm_shutdown" -> "VmmShutdown"
          [] w = "vm_add_device" -> "VmAddDevice"
          [] w = "vm_remove_device" -> "VmRemoveDevice"
          [] w = "vm_add_disk" -> "VmAddDisk"
          [] w = "vm_add_fs" -> "VmAddFs"
          [] w = "vm_add_pmem" -> "VmAddPmem"
          [] w = "vm_add_net" -> "VmAddNet"
          [] w = "vm_add_vsock" -> "VmAddVsock"]

\* The envelope caller t's current call has to enqueue.
OwnEnvelope(t) ==
    [kind |-> CommandOf[fn[t]], data |-> arg[t], sender |-> rcv[t],
     call |-> Cur(t)]

\* C18: the successful send of a wrapper adds exactly one envelope to the
\* queue: the variant of the wrapper's own command kind, with the caller's
\* payload unchanged and the Sender of the channel created in that call; a
\* failed send adds none, and no other step of a caller adds any.
C18_OwnEnvelopeEnqueued ==
    [][\A t \in Callers :
          /\ pc[t] = "send" /\ pc'[t] = "signal" =>
                /\ queue' = Append(queue, OwnEnvelope(t))
                /\ rcv[t] = Cur(t)
                /\ steps[Cur(t)] = <<"channel">>
          /\ ~(pc[t] = "send" /\ pc'[t] = "signal") /\ pc'[t] # pc[t] =>
                Len(queue') <= Len(queue)]_vars

\* vm_reboot has enqueued a VmReboot envelope without payload, carrying the
\* Sender of its own reply channel.
C18_Witness ==
    \E t \in Callers :
        /\ fn[t] = "vm_reboot"
        /\ pc[t] = "signal"
        /\ queue = <<[kind |-> "VmReboot", data |-> NoData,
                      sender |-> rcv[t], call |-> Cur(t)]>>

====
